---- MODULE Spec2Model ----
(***************************************************************************)
(* A model of common_core.c, the string toolkit of common_core: Trim, the  *)
(* classification predicates built on it, Split / FreeStringArray,         *)
(* GetSubstringOccurrenceCount / StringReplace, JoinStrings, and the       *)
(* operations that end the process (HandleError, ClearString, FormatDate,  *)
(* GetSystemCommandOutput).                                                *)
(*                                                                         *)
(* A C string is a sequence of bytes 1..255 (its terminator is implicit);  *)
(* a buffer is a sequence of bytes 0..255 of the buffer's size.  The       *)
(* library keeps no state of its own: the state is the caller's variables  *)
(* (the arguments of the last call, the output buffers and pointers) and   *)
(* the heap.  Each family of operations has its own specification.         *)
(***************************************************************************)
EXTENDS Integers, Sequences, FiniteSets, TLC

VARIABLES
    op,     \* the operation called last ("none" before the first call)
    \* Trim and the predicates
    str,    \* the source string of the call (or NULL)
    len,    \* Trim: the size given for the destination buffer
    out,    \* Trim: the destination, see Trim
    ret,    \* predicates: the value returned (BOOL)
    \* Split and FreeStringArray
    pszStringToSplit,   \* the caller's source buffer (strtok writes in it)
    pszDelimiters,      \* the delimiters of the call (or NULL)
    original,           \* the source buffer as it was when Split was called
    ppszStrings,        \* the caller's char** variable: 0 (NULL) or an address
    nResultCount,       \* the caller's int variable
    heap,               \* the blocks of malloc: address -> block
    \* GetSubstringOccurrenceCount and StringReplace
    pszSrc,             \* the text of the call (or NULL)
    pszFindWhat,        \* the substring looked for (or NULL)
    pszReplaceWith,     \* the replacement
    nResult,            \* the count GetSubstringOccurrenceCount returned
    block,              \* the block StringReplace allocated, see StringReplace
    ppszResult,         \* the caller's char*: NULL or the string read there
    \* JoinStrings
    ppszSourceStringArray,      \* the strings of the call (or NULL)
    nSourceStringArrayLength,   \* the count given with them
    ppszOutput,                 \* the caller's char*, see JoinStrings
    nOutputLength,              \* the caller's int variable
    \* HandleError, ClearString, FormatDate, GetSystemCommandOutput
    pszBuffer,          \* the string in the caller's buffer (or NULL)
    nSize,              \* the size given for the buffer
    pszText,            \* the message, format or command of the call (or NULL)
    popenOpens,         \* whether popen can launch the command
    ppszOutputLines,    \* the caller's char**: NULL or the lines stored
    nOutputLineCount,   \* the caller's int variable
    exited              \* whether the process has called exit

trimVars == <<str, len, out, ret>>
splitVars == <<pszStringToSplit, pszDelimiters, original, ppszStrings,
               nResultCount, heap>>
replaceVars == <<pszSrc, pszFindWhat, pszReplaceWith, nResult, block,
                 ppszResult>>
joinVars == <<ppszSourceStringArray, nSourceStringArrayLength, ppszOutput,
              nOutputLength>>
fatalVars == <<pszBuffer, nSize, pszText, popenOpens, ppszOutputLines,
               nOutputLineCount, exited>>
vars == <<op, trimVars, splitVars, replaceVars, joinVars, fatalVars>>

(***************************************************************************)
(* Bounds of the model.                                                    *)
(***************************************************************************)
MaxLen == 4         \* longest source string given to Trim and the predicates
MaxSplitLen == 4    \* longest source string given to the first Split
MaxBlocks == 4      \* blocks the heap can hold at a time
MaxTextLen == 4     \* longest text given to the count and to StringReplace
MaxFindLen == 2     \* longest substring looked for
MaxReplaceLen == 3  \* longest replacement
MaxJoinCount == 3   \* most strings given to the first JoinStrings
MaxArgLen == 2      \* longest buffer string, message, format or command
MaxSize == 2        \* largest size given for a buffer

(***************************************************************************)
(* C strings and <ctype.h>.                                                *)
(***************************************************************************)
\* The absent pointer. No C string holds a 0 byte, so it is no string.
NULL == <<0>>

\* A null char**: it differs from every array of strings.
NULLArray == <<NULL>>

StringsOver(chars, n) == UNION {[1..k -> chars] : k \in 0..n}

\* The byte at 0-based index i of the string s; index Len(s) is the terminator.
At(s, i) == IF i >= 0 /\ i < Len(s) THEN s[i + 1] ELSE 0

\* The C string a buffer holds from 0-based offset `from`: the bytes up to the
\* first 0 byte (or to the end of the buffer when it holds none).
RECURSIVE CStrFrom(_, _)
CStrFrom(buf, from) ==
    IF from >= Len(buf) \/ buf[from + 1] = 0 THEN <<>>
    ELSE <<buf[from + 1]>> \o CStrFrom(buf, from + 1)

CStr(buf) == CStrFrom(buf, 0)

\* isspace in the C locale: space, \t, \n, \v, \f, \r.
isspace(c) == c \in {32, 9, 10, 11, 12, 13}

\* isupper in the C locale: 'A'..'Z'.
isupper(c) == c >= 65 /\ c <= 90

\* The least element of a non-empty set of integers.
Least(S) == CHOOSE x \in S : \A y \in S : x <= y

\* memset(out, 0, len)
Zeroed(n) == [i \in 1..n |-> 0]

(***************************************************************************)
(* Trim (common_core.c 661-695).                                           *)
(*                                                                         *)
(* The destination is a record: buf, the len bytes of the buffer; o, the   *)
(* offset of the out pointer; over, the bytes stored past the end of the   *)
(* buffer (offset >= len), in order; rdOut, whether strlen(out) read past  *)
(* the end.  Reading past the end is undefined: `slack` is the number of   *)
(* times that read still finds strlen(out) <= len, and every value of it   *)
(* is a possible outcome.                                                  *)
(***************************************************************************)
\* *out = c; out++
Store(d, c) ==
    IF d.o < Len(d.buf)
    THEN [d EXCEPT !.buf = [d.buf EXCEPT ![d.o + 1] = c], !.o = d.o + 1]
    ELSE [d EXCEPT !.over = Append(d.over, c), !.o = d.o + 1]

\* The while loop of Trim. s is str before the test *str++ != 0, e is end.
RECURSIVE TrimLoop(_, _, _, _, _, _, _)
TrimLoop(s0, n, s, e, trimmed, d, slack) ==
    IF At(s0, s) = 0 THEN d                     \* *str++ != 0
    ELSE IF ~(s + 1 <= e) THEN d                \* str <= end
    ELSE IF d.o >= n /\ slack = 0               \* strlen(out) <= len, read
         THEN [d EXCEPT !.rdOut = TRUE]         \* past the buffer: stops
    ELSE
      LET s1 == s + 1
          d1 == IF d.o >= n THEN [d EXCEPT !.rdOut = TRUE] ELSE d
          k1 == IF d.o >= n THEN slack - 1 ELSE slack
          e1 == IF isspace(At(s0, e)) THEN e - 1 ELSE e
      IN  IF ~trimmed /\ isspace(At(s0, s1))
          THEN TrimLoop(s0, n, s1, e1, trimmed, d1, k1)
          ELSE IF s1 = e1 /\ isspace(At(s0, s1)) /\ isspace(At(s0, e1))
          THEN d1
          ELSE TrimLoop(s0, n, s1, e1, TRUE, Store(d1, At(s0, s1)), k1)

\* Trim without the copy of the first byte that it makes before its loop.
TrimIntoLoopOnly(before, n, s, slack) ==
    IF n = 0 THEN before
    ELSE TrimLoop(s, n, 0, Len(s) - 1, FALSE,
                  [buf |-> Zeroed(n), o |-> 0, over |-> <<>>,
                   rdOut |-> FALSE], slack)

\* Trim(out, len, str), on a destination that held `before`.
TrimInto(before, n, s, slack) ==
    IF n = 0 THEN before
    ELSE
      LET d0 == [buf |-> Zeroed(n), o |-> 0, over |-> <<>>, rdOut |-> FALSE]
          d1 == IF ~isspace(At(s, 0)) THEN Store(d0, At(s, 0)) ELSE d0
      IN  TrimLoop(s, n, 0, Len(s) - 1, FALSE, d1, slack)

\* A destination of n bytes nothing has been stored in.
Fresh(n) == [buf |-> Zeroed(n), o |-> 0, over |-> <<>>, rdOut |-> FALSE]

\* The string Trim leaves in a destination of strlen(str) + 1 bytes.
Trim(s) == CStr(TrimInto(Fresh(Len(s) + 1), Len(s) + 1, s, 0).buf)

(***************************************************************************)
(* The predicates built on Trim.                                           *)
(***************************************************************************)
\* IsNullOrWhiteSpace without its call of Trim.
IsNullOrWhiteSpaceUntrimmed(pszTest) == pszTest = NULL \/ Len(pszTest) = 0

IsNullOrWhiteSpace(pszTest) ==
    IF pszTest = NULL \/ Len(pszTest) = 0 THEN TRUE
    ELSE Len(Trim(pszTest)) = 0

IsUppercase(pszTest) ==
    IF IsNullOrWhiteSpace(pszTest) THEN FALSE
    ELSE
      LET TEST_SIZE == Len(pszTest) + 1
          pszTrimResult ==
              TrimInto(Fresh(TEST_SIZE), TEST_SIZE, pszTest, 0).buf
      IN  \A i \in 1..TEST_SIZE :
              pszTrimResult[i] = 0 \/ isupper(pszTrimResult[i])

(***************************************************************************)
(* The variables of a family of operations the program does not call.      *)
(***************************************************************************)
FreeBlock == [kind |-> "free", val |-> <<>>]

NoTrim == str = <<>> /\ len = 0 /\ out = Fresh(0) /\ ret = FALSE

NoSplit ==
    /\ pszStringToSplit = <<>>
    /\ pszDelimiters = <<>>
    /\ original = <<>>
    /\ ppszStrings = 0
    /\ nResultCount = 0
    /\ heap = [a \in 1..MaxBlocks |-> FreeBlock]

NoBlock == [size |-> 0, mem |-> <<>>]

NoReplace ==
    /\ pszSrc = <<>>
    /\ pszFindWhat = <<>>
    /\ pszReplaceWith = <<>>
    /\ nResult = 0
    /\ block = NoBlock
    /\ ppszResult = NULL

\* The caller's char* before any JoinStrings: a null pointer.
NoOutput == [null |-> TRUE, mem |-> <<>>, fault |-> FALSE]

NoJoin ==
    /\ ppszSourceStringArray = <<>>
    /\ nSourceStringArrayLength = 0
    /\ ppszOutput = NoOutput
    /\ nOutputLength = 0

NoFatal ==
    /\ pszBuffer = <<>>
    /\ nSize = 0
    /\ pszText = <<>>
    /\ popenOpens = TRUE
    /\ ppszOutputLines = NULLArray
    /\ nOutputLineCount = 0
    /\ exited = FALSE

(***************************************************************************)
(* The calls a program makes to Trim and the predicates.                   *)
(***************************************************************************)
TrimChars == {32, 9, 65, 49}            \* ' ', '\t', 'A', '1'
TrimStrings == StringsOver(TrimChars, MaxLen)

\* The caller holds a source string (or no string) and a destination size.
InitTrim ==
    /\ op = "none"
    /\ str \in TrimStrings \cup {NULL}
    /\ len \in 0..(MaxLen + 2)
    /\ out = Fresh(len)
    /\ ret = FALSE
    /\ NoSplit
    /\ NoReplace
    /\ NoJoin
    /\ NoFatal

\* Trim(out, len, str), out being a buffer of len bytes.
DoTrim ==
    /\ op = "none"
    /\ str # NULL
    /\ \E slack \in 0..MaxLen :
        /\ (len >= Len(str) + 1 => slack = 0)
        /\ out' = TrimInto(out, len, str, slack)
    /\ op' = "Trim"
    /\ UNCHANGED <<str, len, ret, splitVars, replaceVars,
                   joinVars, fatalVars>>

\* Trim(out2, n, out): the result of a Trim that had room is trimmed again,
\* into a buffer of at least its length plus one.
DoTrimAgain ==
    /\ op = "Trim"
    /\ len >= Len(str) + 1
    /\ LET s == CStr(out.buf) IN
       \E n \in (Len(s) + 1)..(Len(s) + 2) :
        /\ op' = "TrimAgain"
        /\ str' = s
        /\ len' = n
        /\ out' = TrimInto(Fresh(n), n, s, 0)
    /\ UNCHANGED <<ret, splitVars, replaceVars,
                   joinVars, fatalVars>>

DoIsNullOrWhiteSpace ==
    /\ op = "none"
    /\ op' = "IsNullOrWhiteSpace"
    /\ ret' = IsNullOrWhiteSpace(str)
    /\ UNCHANGED <<str, len, out, splitVars, replaceVars,
                   joinVars, fatalVars>>

DoIsUppercase ==
    /\ op = "none"
    /\ op' = "IsUppercase"
    /\ ret' = IsUppercase(str)
    /\ UNCHANGED <<str, len, out, splitVars, replaceVars,
                   joinVars, fatalVars>>

NextTrim == DoTrim \/ DoTrimAgain \/ DoIsNullOrWhiteSpace \/ DoIsUppercase

SpecTrim == InitTrim /\ [][NextTrim]_vars

(***************************************************************************)
(* What the claims about Trim and the predicates say.                      *)
(***************************************************************************)
\* The ASCII whitespace bytes: ' ', \t, \n, \v, \f, \r.
AsciiWhitespace == {32} \cup (9..13)

AllWhitespace(s) == \A i \in 1..Len(s) : s[i] \in AsciiWhitespace

NonWhite(s) == {i \in 1..Len(s) : s[i] \notin AsciiWhitespace}

Greatest(S) == CHOOSE x \in S : \A y \in S : y <= x

\* s without its leading run and its trailing run of whitespace.
Stripped(s) ==
    IF NonWhite(s) = {} THEN <<>>
    ELSE SubSeq(s, Least(NonWhite(s)), Greatest(NonWhite(s)))

\* Trim was called with a destination that has room for the whole source.
Trimmed == op = "Trim" /\ len >= Len(str) + 1

\* C1: given a destination of at least len(s)+1 bytes, Trim leaves in it
\* exactly s without its leading and trailing whitespace runs, the bytes in
\* between (interior whitespace included) unchanged and in order.
C1_TrimStripsBothEnds == Trimmed => CStr(out.buf) = Stripped(str)

\* C5: IsNullOrWhiteSpace(t) is TRUE exactly when t is NULL, empty or made
\* only of whitespace; Trim of such a present t is the empty string; a t
\* holding a non-whitespace byte anywhere gives FALSE.
C5_BlankIffNoVisibleByte ==
    /\ op = "IsNullOrWhiteSpace"
          => (ret <=> (str = NULL \/ AllWhitespace(str)))
    /\ (Trimmed /\ AllWhitespace(str)) => CStr(out.buf) = <<>>

\* C5 happens: a string of two different whitespace bytes was found blank.
C5_Witness ==
    /\ op = "IsNullOrWhiteSpace"
    /\ str = <<32, 9>>
    /\ ret = TRUE

\* C6: trimming the result of Trim again gives the same string.
C6_TrimIdempotent == op = "TrimAgain" => CStr(out.buf) = str

\* C8: IsUppercase(t) is TRUE exactly when t is not blank and every byte of
\* t without its leading and trailing whitespace is an uppercase letter.
C8_UppercaseIffStrippedAllUpper ==
    op = "IsUppercase" =>
        (ret <=> /\ str # NULL
                 /\ Stripped(str) # <<>>
                 /\ \A i \in 1..Len(Stripped(str)) :
                        Stripped(str)[i] \in 65..90)

\* C11: for every destination size n >= 1, smaller than len(s)+1 included,
\* Trim reads and writes only the first n bytes of the destination and
\* leaves a terminated string there; with n = 0 it writes nothing.
C11_TrimStaysInsideDestination ==
    op = "Trim" =>
        /\ out.over = <<>>
        /\ ~out.rdOut
        /\ len >= 1 => \E i \in 1..len : out.buf[i] = 0
        /\ len = 0 => out = Fresh(0)

\* The bytes of s that are not whitespace, in order.
RECURSIVE Visible(_)
Visible(s) ==
    IF s = <<>> THEN <<>>
    ELSE IF Head(s) \in AsciiWhitespace THEN Visible(Tail(s))
    ELSE <<Head(s)>> \o Visible(Tail(s))

\* C16: given a destination of at least len(s)+1 bytes, the non-whitespace
\* bytes of Trim's result are those of s, in the same order, and the result
\* is not longer than s.
C16_TrimKeepsVisibleBytes ==
    Trimmed =>
        /\ Visible(CStr(out.buf)) = Visible(str)
        /\ Len(CStr(out.buf)) <= Len(str)

\* C16 happens: a string with whitespace before, between and after its two
\* visible bytes was trimmed.
C16_Witness ==
    /\ Trimmed
    /\ str = <<32, 65, 9, 49>>
    /\ Visible(CStr(out.buf)) = <<65, 49>>

(***************************************************************************)
(* The heap.  A block is free, a string (val: its bytes up to the          *)
(* terminator) or an array of char* (val: the addresses it holds, 0 for    *)
(* NULL).  malloc gives the lowest free address; realloc grows an array    *)
(* where it is.                                                            *)
(***************************************************************************)
FreeAddrs(h) == {a \in DOMAIN h : h[a].kind = "free"}

malloc(h) == Least(FreeAddrs(h))

\* free(a)
Release(h, a) == [h EXCEPT ![a] = FreeBlock]

(***************************************************************************)
(* strtok(3) on the buffer buf, resuming at offset pos: the token's offset *)
(* (-1 for NULL), the buffer with the token's end overwritten by a         *)
(* terminator, and the offset the next call resumes at.                    *)
(***************************************************************************)
Bytes(s) == {s[i] : i \in 1..Len(s)}

RECURSIVE SkipDelimiters(_, _, _)
SkipDelimiters(buf, pos, delims) ==
    IF At(buf, pos) # 0 /\ At(buf, pos) \in Bytes(delims)
    THEN SkipDelimiters(buf, pos + 1, delims)
    ELSE pos

RECURSIVE TokenEnd(_, _, _)
TokenEnd(buf, pos, delims) ==
    IF At(buf, pos) = 0 \/ At(buf, pos) \in Bytes(delims)
    THEN pos
    ELSE TokenEnd(buf, pos + 1, delims)

strtok(buf, pos, delims) ==
    LET b == SkipDelimiters(buf, pos, delims) IN
    IF At(buf, b) = 0 THEN [tok |-> -1, buf |-> buf, save |-> b]
    ELSE LET e == TokenEnd(buf, b, delims) IN
         IF At(buf, e) = 0 THEN [tok |-> b, buf |-> buf, save |-> e]
         ELSE [tok |-> b, buf |-> [buf EXCEPT ![e + 1] = 0], save |-> e + 1]

\* The tokens strtok finds in buf from pos on: what Split has to allocate.
RECURSIVE TokenCount(_, _, _)
TokenCount(buf, pos, delims) ==
    LET t == strtok(buf, pos, delims) IN
    IF t.tok = -1 THEN 0 ELSE 1 + TokenCount(t.buf, t.save, delims)

(***************************************************************************)
(* Split (common_core.c 460-576).  The caller's variables and the heap are *)
(* a record: buf, the source buffer; strings, what pppszStrings points to; *)
(* count, what pnResultCount points to; heap.  Both pointers are present.  *)
(***************************************************************************)
\* SplitLoop leaving its loop after the first token.
SplitLoopOnce(buf, save, delims, h, arr) ==
    [buf |-> buf, heap |-> h, strings |-> arr, count |-> Len(h[arr].val)]

\* malloc, memset and strcpy of one token, stored at the end of the array.
RECURSIVE SplitLoop(_, _, _, _, _)
SplitLoop(buf, save, delims, h, arr) ==
    LET t == strtok(buf, save, delims) IN
    IF t.tok = -1
    THEN [buf |-> t.buf, heap |-> h, strings |-> arr,
          count |-> Len(h[arr].val)]
    ELSE
      LET pszNextResult == malloc(h)
          h1 == [h EXCEPT ![pszNextResult] =
                     [kind |-> "str", val |-> CStrFrom(t.buf, t.tok)]]
          h2 == [h1 EXCEPT ![arr].val = Append(@, pszNextResult)]
      IN  SplitLoop(t.buf, t.save, delims, h2, arr)

\* Split without the lines that reset the caller's variables.
SplitKeepingOutputs(c, delims) ==
    IF IsNullOrWhiteSpace(c.buf) THEN c
    ELSE IF delims = NULL \/ At(delims, 0) = 0 THEN c
    ELSE
      LET t == strtok(c.buf, 0, delims) IN
      IF t.tok = -1 THEN [c EXCEPT !.buf = t.buf]
      ELSE
        LET pszFirstElement == malloc(c.heap)
            h1 == [c.heap EXCEPT ![pszFirstElement] =
                       [kind |-> "str", val |-> CStrFrom(t.buf, t.tok)]]
            ppszResultArray == malloc(h1)
            h2 == [h1 EXCEPT ![ppszResultArray] =
                       [kind |-> "arr", val |-> <<pszFirstElement>>]]
        IN  SplitLoop(t.buf, t.save, delims, h2, ppszResultArray)

\* Split resetting the caller's variables before it checks its arguments.
SplitResettingFirst(c, delims) ==
    LET z == [c EXCEPT !.count = 0, !.strings = 0] IN
    IF IsNullOrWhiteSpace(c.buf) THEN z
    ELSE IF delims = NULL \/ At(delims, 0) = 0 THEN z
    ELSE SplitKeepingOutputs(z, delims)

Split(c, delims) ==
    IF IsNullOrWhiteSpace(c.buf) THEN c
    ELSE IF delims = NULL \/ At(delims, 0) = 0 THEN c
    ELSE
      LET t == strtok(c.buf, 0, delims) IN
      IF t.tok = -1
      THEN [c EXCEPT !.buf = t.buf, !.count = 0, !.strings = 0]
      ELSE
        LET pszFirstElement == malloc(c.heap)
            h1 == [c.heap EXCEPT ![pszFirstElement] =
                       [kind |-> "str", val |-> CStrFrom(t.buf, t.tok)]]
            ppszResultArray == malloc(h1)
            h2 == [h1 EXCEPT ![ppszResultArray] =
                       [kind |-> "arr", val |-> <<pszFirstElement>>]]
        IN  SplitLoop(t.buf, t.save, delims, h2, ppszResultArray)

(***************************************************************************)
(* FreeStringArray (common_core.c 123-143), given the address the caller's *)
(* pointer holds: the heap and the pointer after the call.                 *)
(***************************************************************************)
RECURSIVE FreeElements(_, _, _, _)
FreeElements(h, arr, i, nElementCount) ==
    IF ~(i < nElementCount) THEN h
    ELSE
      LET e == h[arr].val[i + 1]
          s == IF e = 0 THEN NULL ELSE h[e].val
      IN  IF IsNullOrWhiteSpace(s)
          THEN FreeElements(h, arr, i + 1, nElementCount)
          ELSE FreeElements(
                   [Release(h, e) EXCEPT ![arr].val[i + 1] = 0],
                   arr, i + 1, nElementCount)

FreeStringArray(h, arr, nElementCount) ==
    IF arr = 0 THEN [heap |-> h, strings |-> arr]
    ELSE IF nElementCount <= 0 THEN [heap |-> h, strings |-> arr]
    ELSE [heap |-> Release(FreeElements(h, arr, 0, nElementCount), arr),
          strings |-> 0]

(***************************************************************************)
(* The calls a program makes to Split and FreeStringArray, all on the same *)
(* pair of output variables, which start as NULL and 0.  The first Split   *)
(* is given any source and delimiters within the bounds; the later ones    *)
(* are given those of AgainSources and AgainDelimiters.                    *)
(***************************************************************************)
SplitChars == {44, 32, 97}              \* ',', ' ', 'a'
SplitSources == StringsOver(SplitChars, MaxSplitLen) \cup {NULL}
Delimiters == {NULL, <<>>, <<44>>, <<32>>, <<44, 32>>}
AgainSources == {NULL, <<>>, <<32>>, <<44>>, <<97>>}
AgainDelimiters == {NULL, <<>>, <<44>>}

InitSplit ==
    /\ op = "none"
    /\ NoTrim
    /\ NoReplace
    /\ NoJoin
    /\ NoFatal
    /\ pszStringToSplit \in SplitSources
    /\ pszDelimiters \in Delimiters
    /\ original = pszStringToSplit
    /\ ppszStrings = 0
    /\ nResultCount = 0
    /\ heap = [a \in 1..MaxBlocks |-> FreeBlock]

Caller == [buf |-> pszStringToSplit, strings |-> ppszStrings,
           count |-> nResultCount, heap |-> heap]

\* malloc has the blocks the call asks for.
HasRoom(s, d) ==
    (~IsNullOrWhiteSpace(s) /\ d # NULL /\ TokenCount(s, 0, d) > 0)
        => Cardinality(FreeAddrs(heap)) >= TokenCount(s, 0, d) + 1

\* Split(s, d, &ppszStrings, &nResultCount)
SplitCall(s, d) ==
    /\ HasRoom(s, d)
    /\ LET r == Split([Caller EXCEPT !.buf = s], d) IN
        /\ pszStringToSplit' = r.buf
        /\ ppszStrings' = r.strings
        /\ nResultCount' = r.count
        /\ heap' = r.heap
    /\ pszDelimiters' = d
    /\ original' = s
    /\ op' = "Split"
    /\ UNCHANGED <<trimVars, replaceVars,
                   joinVars, fatalVars>>

DoSplit ==
    /\ op = "none"
    /\ SplitCall(pszStringToSplit, pszDelimiters)

DoSplitAgain ==
    /\ op # "none"
    /\ \E s \in AgainSources, d \in AgainDelimiters : SplitCall(s, d)

\* FreeStringArray(&ppszStrings, n), n being the count Split reported or 0.
DoFreeStringArray ==
    /\ op # "none"
    /\ \E n \in {nResultCount, 0} :
        /\ ppszStrings # 0 => n <= Len(heap[ppszStrings].val)
        /\ LET r == FreeStringArray(heap, ppszStrings, n) IN
            /\ heap' = r.heap
            /\ ppszStrings' = r.strings
    /\ op' = "FreeStringArray"
    /\ UNCHANGED <<pszStringToSplit, pszDelimiters, original, nResultCount,
                   trimVars, replaceVars,
                   joinVars, fatalVars>>

NextSplit == DoSplit \/ DoSplitAgain \/ DoFreeStringArray

SpecSplit == InitSplit /\ [][NextSplit]_vars

(***************************************************************************)
(* What the claims about Split say.                                        *)
(***************************************************************************)
\* The token sequence the caller holds: the strings its array points to.
Tokens ==
    IF ppszStrings = 0 THEN <<>>
    ELSE [i \in 1..Len(heap[ppszStrings].val) |->
              heap[heap[ppszStrings].val[i]].val]

Blank(s) == s = NULL \/ AllWhitespace(s)

NoDelimiters(d) == d = NULL \/ d = <<>>

RECURSIVE Ascending(_)
Ascending(S) ==
    IF S = {} THEN <<>> ELSE <<Least(S)>> \o Ascending(S \ {Least(S)})

\* The maximal runs of bytes of s outside the set D, in order of appearance.
RunStarts(s, D) ==
    {i \in 1..Len(s) : s[i] \notin D /\ (i = 1 \/ s[i - 1] \in D)}

RunEnd(s, D, i) == Least({j \in i..Len(s) : j = Len(s) \/ s[j + 1] \in D})

Runs(s, D) ==
    LET starts == Ascending(RunStarts(s, D)) IN
    [k \in 1..Len(starts) |-> SubSeq(s, starts[k], RunEnd(s, D, starts[k]))]

\* Split was called with a source that is not blank and a delimiter set.
SplitRan ==
    op = "Split" /\ ~Blank(original) /\ ~NoDelimiters(pszDelimiters)

RECURSIVE Joined(_, _)
Joined(toks, c) ==
    IF Len(toks) = 0 THEN <<>>
    ELSE IF Len(toks) = 1 THEN toks[1]
    ELSE toks[1] \o <<c>> \o Joined(Tail(toks), c)

\* s with each run of bytes of D replaced by the single byte c.
RECURSIVE Collapsed(_, _, _, _)
Collapsed(s, D, c, i) ==
    IF i > Len(s) THEN <<>>
    ELSE IF s[i] \notin D THEN <<s[i]>> \o Collapsed(s, D, c, i + 1)
    ELSE IF i = 1 \/ s[i - 1] \notin D
         THEN <<c>> \o Collapsed(s, D, c, i + 1)
         ELSE Collapsed(s, D, c, i + 1)

\* The same, the runs s begins and ends with being dropped instead.
RECURSIVE CollapsedInside(_, _, _, _)
CollapsedInside(s, D, c, i) ==
    IF i > Len(s) THEN <<>>
    ELSE IF s[i] \notin D THEN <<s[i]>> \o CollapsedInside(s, D, c, i + 1)
    ELSE IF /\ i > 1 /\ s[i - 1] \notin D
            /\ \E k \in (i + 1)..Len(s) : s[k] \notin D
         THEN <<c>> \o CollapsedInside(s, D, c, i + 1)
         ELSE CollapsedInside(s, D, c, i + 1)

\* C7 as claimed: for every text and non-empty delimiter set, the tokens
\* joined with one delimiter byte are the text with each run of delimiters
\* collapsed to that byte, also when the text begins or ends with delimiters.
C7_JoinCollapsesEveryRun ==
    (op = "Split" /\ original # NULL /\ ~NoDelimiters(pszDelimiters)) =>
        \A c \in Bytes(pszDelimiters) :
            Joined(Tokens, c) = Collapsed(original, Bytes(pszDelimiters), c, 1)

\* C7 as amended: for every text that is not blank, the tokens joined with
\* one delimiter byte are the text with its leading and trailing runs of
\* delimiters removed and each run in between collapsed to that byte.
C7_JoinCollapsesInnerRuns ==
    SplitRan =>
        \A c \in Bytes(pszDelimiters) :
            Joined(Tokens, c) =
                CollapsedInside(original, Bytes(pszDelimiters), c, 1)

\* C7 happens: "a,,a" split on "," gave two tokens.
C7_Witness ==
    /\ op = "Split"
    /\ original = <<97, 44, 44, 97>>
    /\ pszDelimiters = <<44>>
    /\ Len(Tokens) = 2

\* The call of Split whose precondition fails.
SplitRefused ==
    op = "Split" /\ (Blank(original) \/ NoDelimiters(pszDelimiters))

\* C9 as claimed: a Split whose source is blank or whose delimiters are
\* absent or empty ends with no token sequence and a count of zero.
C9_RefusedSplitClearsOutputs ==
    SplitRefused => (ppszStrings = 0 /\ nResultCount = 0)

\* C9 as amended: such a Split leaves the token sequence, the count and the
\* heap as they were before the call.
C9_RefusedSplitKeepsOutputs ==
    [][SplitRefused' =>
          /\ ppszStrings' = ppszStrings
          /\ nResultCount' = nResultCount
          /\ heap' = heap]_vars

\* C9 happens: a refused Split ended with the tokens of an earlier one.
C9_Witness ==
    /\ SplitRefused
    /\ original = <<32>>
    /\ nResultCount = 2
    /\ Len(Tokens) = 2

\* C10: with delimiters that are NULL or only whitespace, Split does
\* nothing: no token, no allocation, the source left as it was.
C10_BlankDelimitersDoNothing ==
    [][(op' = "Split" /\ Blank(pszDelimiters')) =>
          /\ ppszStrings' = ppszStrings
          /\ nResultCount' = nResultCount
          /\ heap' = heap
          /\ pszStringToSplit' = original']_vars

\* C12: FreeStringArray called with the sequence and the count Split gave
\* (the call that ends with the caller's pointer NULL) releases every token,
\* whatever it holds, and the array: none of these blocks stays allocated.
C12_FreeStringArrayReleasesAll ==
    [][(op' = "FreeStringArray" /\ ppszStrings # 0 /\ ppszStrings' = 0) =>
          \A a \in {ppszStrings} \cup Bytes(heap[ppszStrings].val) :
              heap'[a] = FreeBlock]_vars

(***************************************************************************)
(* GetSubstringOccurrenceCount (common_core.c 148-173).                    *)
(***************************************************************************)
\* strstr(&s[i], f) == &s[i], f not being empty: f is found at offset i.
FoundAt(s, i, f) == \A k \in 0..(Len(f) - 1) : At(s, i + k) = f[k + 1]

\* The for loop: i += FIND_WHAT_LEN in its body, then the i++ of the loop.
RECURSIVE CountLoop(_, _, _, _)
CountLoop(s, f, i, n) ==
    IF ~(i < Len(s) /\ At(s, i) # 0) THEN n
    ELSE IF ~FoundAt(s, i, f) THEN CountLoop(s, f, i + 1, n)
    ELSE CountLoop(s, f, i + Len(f) + 1, n + 1)

GetSubstringOccurrenceCount(s, f) ==
    IF s = NULL \/ At(s, 0) = 0 THEN 0
    ELSE IF f = NULL \/ At(f, 0) = 0 THEN 0
    ELSE CountLoop(s, f, 0, 0)

(***************************************************************************)
(* StringReplace (common_core.c 593-653).  The block it allocates is a     *)
(* record: size, the bytes malloc was asked for; mem, the bytes stored     *)
(* from the block's address on, those stored past the block included       *)
(* (Len(mem) > size exactly when the function wrote past the block).       *)
(***************************************************************************)
\* (*ppszResult)[i] = c
Poke(b, i, c) ==
    IF i < Len(b.mem) THEN [b EXCEPT !.mem[i + 1] = c]
    ELSE [b EXCEPT !.mem = b.mem \o [k \in 1..(i - Len(b.mem)) |-> 0] \o <<c>>]

\* strcpy(&(*ppszResult)[i], r): the bytes of r, then a terminator.
RECURSIVE Strcpy(_, _, _, _)
Strcpy(b, i, r, k) ==
    IF k > Len(r) THEN Poke(b, i, 0)
    ELSE Strcpy(Poke(b, i, r[k]), i + 1, r, k + 1)

\* The while loop and the final terminator; p is the offset of pszSrc.
RECURSIVE ReplaceLoop(_, _, _, _, _, _)
ReplaceLoop(s, f, r, p, b, i) ==
    IF At(s, p) = 0 THEN Poke(b, i, 0)
    ELSE IF FoundAt(s, p, f)
         THEN ReplaceLoop(s, f, r, p + Len(f), Strcpy(b, i, r, 1), i + Len(r))
         ELSE ReplaceLoop(s, f, r, p + 1, Poke(b, i, At(s, p)), i + 1)

\* The block StringReplace fills, or NoBlock when it gives up.
StringReplace(s, f, r) ==
    IF s = NULL \/ At(s, 0) = 0 THEN NoBlock
    ELSE IF f = NULL \/ At(f, 0) = 0 THEN NoBlock
    ELSE
      LET nSrcLen == Len(s)
          DELTA == Len(r) - Len(f)
          nOccurrences ==
              IF DELTA = 0 THEN 0 ELSE GetSubstringOccurrenceCount(s, f)
          BUFSIZE ==
              IF DELTA = 0 THEN nSrcLen ELSE nSrcLen + nOccurrences * DELTA
      IN  ReplaceLoop(s, f, r, 0,
                      [size |-> BUFSIZE + 1, mem |-> Zeroed(BUFSIZE + 1)], 0)

\* What the caller can read at *ppszResult.  A block written within its
\* size holds one string.  Past the block the bytes belong to the heap: the
\* read finds them as stored, or finds the block's own bytes only.
Readings(b) ==
    IF Len(b.mem) <= b.size THEN {CStr(b.mem)}
    ELSE {CStr(b.mem), CStr(SubSeq(b.mem, 1, b.size))}

(***************************************************************************)
(* The calls a program makes to GetSubstringOccurrenceCount and            *)
(* StringReplace.                                                          *)
(***************************************************************************)
TextChars == {97, 32}                   \* 'a', ' '
ReplaceChars == {88, 97}                \* 'X', 'a'

InitReplace ==
    /\ op = "none"
    /\ NoTrim
    /\ NoSplit
    /\ NoJoin
    /\ NoFatal
    /\ pszSrc \in StringsOver(TextChars, MaxTextLen) \cup {NULL}
    /\ pszFindWhat \in StringsOver(TextChars, MaxFindLen) \cup {NULL}
    /\ pszReplaceWith \in StringsOver(ReplaceChars, MaxReplaceLen)
    /\ nResult = 0
    /\ block = NoBlock
    /\ ppszResult = NULL

DoGetSubstringOccurrenceCount ==
    /\ op = "none"
    /\ nResult' = GetSubstringOccurrenceCount(pszSrc, pszFindWhat)
    /\ op' = "GetSubstringOccurrenceCount"
    /\ UNCHANGED <<pszSrc, pszFindWhat, pszReplaceWith, block, ppszResult,
                   trimVars, splitVars,
                   joinVars, fatalVars>>

\* StringReplace(pszSrc, pszFindWhat, pszReplaceWith, &ppszResult)
DoStringReplace ==
    /\ op = "none"
    /\ LET b == StringReplace(pszSrc, pszFindWhat, pszReplaceWith) IN
        /\ block' = b
        /\ IF b = NoBlock THEN ppszResult' = ppszResult
           ELSE ppszResult' \in Readings(b)
    /\ op' = "StringReplace"
    /\ UNCHANGED <<pszSrc, pszFindWhat, pszReplaceWith, nResult,
                   trimVars, splitVars,
                   joinVars, fatalVars>>

NextReplace == DoGetSubstringOccurrenceCount \/ DoStringReplace

SpecReplace == InitReplace /\ [][NextReplace]_vars

(***************************************************************************)
(* What the claims about the count and the replacement say.                *)
(***************************************************************************)
\* The occurrences of f a scan of s from offset i finds, resuming right
\* after each one.
RECURSIVE Occurrences(_, _, _)
Occurrences(s, f, i) ==
    IF i + Len(f) > Len(s) THEN 0
    ELSE IF SubSeq(s, i + 1, i + Len(f)) = f
         THEN 1 + Occurrences(s, f, i + Len(f))
         ELSE Occurrences(s, f, i + 1)

\* s with each of those occurrences replaced by r.
RECURSIVE Replaced(_, _, _, _)
Replaced(s, f, r, i) ==
    IF i >= Len(s) THEN <<>>
    ELSE IF i + Len(f) <= Len(s) /\ SubSeq(s, i + 1, i + Len(f)) = f
         THEN r \o Replaced(s, f, r, i + Len(f))
         ELSE <<s[i + 1]>> \o Replaced(s, f, r, i + 1)

Present(s) == s # NULL /\ s # <<>>

\* C3: for a non-empty text and needle, the string StringReplace produces
\* is the text with every occurrence of the needle, found left to right and
\* resuming right after each match, replaced, the other bytes kept.
C3_ResultIsTheReplacedText ==
    (op = "StringReplace" /\ Present(pszSrc) /\ Present(pszFindWhat)) =>
        ppszResult = Replaced(pszSrc, pszFindWhat, pszReplaceWith, 0)

\* C4: the count is the number of occurrences found left to right,
\* advancing by exactly the needle's length after each match, and 0 when
\* the text or the needle is absent or empty.
C4_CountsEveryAdjacentOccurrence ==
    op = "GetSubstringOccurrenceCount" =>
        nResult = IF Present(pszSrc) /\ Present(pszFindWhat)
                  THEN Occurrences(pszSrc, pszFindWhat, 0)
                  ELSE 0

\* C15: the block StringReplace allocates holds every byte its loop stores,
\* and the result with its terminator fills the block exactly.
C15_BlockFitsResultExactly ==
    (op = "StringReplace" /\ Present(pszSrc) /\ Present(pszFindWhat)) =>
        /\ Len(block.mem) <= block.size
        /\ Len(CStr(block.mem)) + 1 = block.size

(***************************************************************************)
(* JoinStrings (common_core.c 366-402).                                    *)
(*                                                                         *)
(* The caller's char* is a record: null, whether it is a null pointer;     *)
(* mem, the bytes of the block it points to; fault, whether a call read a  *)
(* byte that was never stored or stored past the block.  A byte realloc    *)
(* adds to a block holds no value yet: it is Indeterminate.                *)
(***************************************************************************)
Indeterminate == 0 - 1

\* realloc(p, n) where b is the bytes of p's block (none for a null p)
realloc(b, n) ==
    [i \in 1..n |-> IF i <= Len(b) THEN b[i] ELSE Indeterminate]

\* memset(p, 0, n)
memset(b, n) == [i \in 1..Len(b) |-> IF i <= n THEN 0 ELSE b[i]]

\* Whether the bytes of b up to a terminator all hold a value.
Terminated(b) ==
    \E i \in 1..Len(b) :
        b[i] = 0 /\ \A j \in 1..(i - 1) : b[j] # Indeterminate

\* strcat(p, s) on the caller's char*
strcat(o, s) ==
    IF ~Terminated(o.mem) THEN [o EXCEPT !.fault = TRUE]
    ELSE
      LET at == Len(CStr(o.mem))
          new == s \o <<0>>
      IN  IF at + Len(new) > Len(o.mem) THEN [o EXCEPT !.fault = TRUE]
          ELSE [o EXCEPT !.mem = [i \in 1..Len(o.mem) |->
                   IF i > at /\ i <= at + Len(new)
                   THEN new[i - at] ELSE o.mem[i]]]

\* The for loop of JoinStrings without its memset.
RECURSIVE JoinLoopKeepingBytes(_, _, _, _, _)
JoinLoopKeepingBytes(arr, n, i, o, nTotalBytes) ==
    IF ~(i < n) THEN o
    ELSE
      LET total == nTotalBytes + Len(arr[i + 1]) + 1
          grown == [o EXCEPT !.null = FALSE, !.mem = realloc(o.mem, total)]
      IN  JoinLoopKeepingBytes(arr, n, i + 1, strcat(grown, arr[i + 1]),
                               total)

\* The for loop of JoinStrings, before its iteration i.
RECURSIVE JoinLoop(_, _, _, _, _)
JoinLoop(arr, n, i, o, nTotalBytes) ==
    IF ~(i < n) THEN o
    ELSE
      LET CURRENT_ENTRY_SIZE == Len(arr[i + 1]) + 1
          total == nTotalBytes + CURRENT_ENTRY_SIZE
          grown == realloc(o.mem, total)
          ready == IF i = 0 THEN memset(grown, total) ELSE grown
      IN  JoinLoop(arr, n, i + 1,
                   strcat([o EXCEPT !.null = FALSE, !.mem = ready],
                          arr[i + 1]),
                   total)

\* JoinStrings(arr, n, &out, &length) with present output destinations: the
\* caller's char* and int after the call.
JoinStrings(arr, n, o, length) ==
    IF arr = NULLArray THEN [out |-> o, length |-> length]
    ELSE IF n <= 0 THEN [out |-> o, length |-> length]
    ELSE
      LET joined == JoinLoop(arr, n, 0, o, 0)
      IN  IF ~Terminated(joined.mem)
          THEN [out |-> [joined EXCEPT !.fault = TRUE], length |-> length]
          ELSE
            LET FINISHED_STRING_SIZE == Len(CStr(joined.mem)) + 1
                fitted == realloc(joined.mem, FINISHED_STRING_SIZE)
            IN  [out |-> [joined EXCEPT !.mem =
                            [fitted EXCEPT ![FINISHED_STRING_SIZE] = 0]],
                 length |-> FINISHED_STRING_SIZE]

(***************************************************************************)
(* The calls a program makes to JoinStrings.                               *)
(***************************************************************************)
foo == <<102, 111, 111>>
bar == <<98, 97, 114>>
baz == <<98, 97, 122>>
JoinWords == {<<>>, <<32>>, foo, bar, baz}

\* The arrays of at most n words.
JoinArrays(n) == UNION {[1..k -> JoinWords] : k \in 0..n}

\* The arrays joined by the later calls, into the buffer of the result
\* before.
AgainArrays == {NULLArray, <<>>, <<bar>>, <<baz, <<>>, foo>>, <<foo, bar, baz>>}

\* The counts a caller gives with an array: its length, or nothing to join.
Counts(arr) == IF arr = NULLArray THEN {0, 1} ELSE {Len(arr), 0, 0 - 1}

\* The caller holds an array of strings (or none), a null char* and an int.
InitJoin ==
    /\ op = "none"
    /\ ppszSourceStringArray \in JoinArrays(MaxJoinCount) \cup {NULLArray}
    /\ nSourceStringArrayLength \in Counts(ppszSourceStringArray)
    /\ ppszOutput = NoOutput
    /\ nOutputLength = 0
    /\ NoTrim
    /\ NoSplit
    /\ NoReplace
    /\ NoFatal

\* JoinStrings(arr, n, &ppszOutput, &nOutputLength)
JoinCall(arr, n) ==
    LET r == JoinStrings(arr, n, ppszOutput, nOutputLength)
    IN  /\ ppszSourceStringArray' = arr
        /\ nSourceStringArrayLength' = n
        /\ ppszOutput' = r.out
        /\ nOutputLength' = r.length
        /\ UNCHANGED <<trimVars, splitVars, replaceVars, fatalVars>>

DoJoinStrings ==
    /\ op = "none"
    /\ op' = "JoinStrings"
    /\ JoinCall(ppszSourceStringArray, nSourceStringArrayLength)

\* A later call, with the same output variables.
DoJoinStringsAgain ==
    /\ op # "none"
    /\ op' = "JoinStringsAgain"
    /\ \E arr \in AgainArrays :
           JoinCall(arr, IF arr = NULLArray THEN 1 ELSE Len(arr))

NextJoin == DoJoinStrings \/ DoJoinStringsAgain

SpecJoin == InitJoin /\ [][NextJoin]_vars

(***************************************************************************)
(* The claim about JoinStrings.                                            *)
(***************************************************************************)
\* The strings of arr one after the other.
RECURSIVE Concatenation(_)
Concatenation(arr) ==
    IF arr = <<>> THEN <<>> ELSE Head(arr) \o Concatenation(Tail(arr))

\* C13: JoinStrings on a non-empty sequence leaves in the output the strings
\* one after the other, with no separator, and a length of the sum of their
\* lengths plus one, whether the output pointer was null or held the buffer
\* of an earlier result; on an absent or empty sequence it leaves the output
\* and the length as they were.
C13_JoinIsTheConcatenation ==
    [][op' \in {"JoinStrings", "JoinStringsAgain"} =>
          IF ppszSourceStringArray' = NULLArray \/ nSourceStringArrayLength' <= 0
          THEN ppszOutput' = ppszOutput /\ nOutputLength' = nOutputLength
          ELSE LET joined == Concatenation(
                       SubSeq(ppszSourceStringArray', 1,
                              nSourceStringArrayLength'))
               IN  /\ ~ppszOutput'.fault
                   /\ ~ppszOutput'.null
                   /\ CStr(ppszOutput'.mem) = joined
                   /\ nOutputLength' = Len(joined) + 1]_vars

\* C13 happens: "foo", "bar", "baz" were joined into the buffer of an
\* earlier result, giving "foobarbaz" and 10.
C13_Witness ==
    /\ op = "JoinStringsAgain"
    /\ ppszSourceStringArray = <<foo, bar, baz>>
    /\ CStr(ppszOutput.mem) = foo \o bar \o baz
    /\ nOutputLength = 10

(***************************************************************************)
(* The operations that can end the process: HandleError (common_core.c     *)
(* 247-256), ClearString (48-59), FormatDate (79-98) and                   *)
(* GetSystemCommandOutput (180-242).  exit never returns: once exited is   *)
(* TRUE the program makes no call.                                         *)
(***************************************************************************)
\* Whether the process has exited after ThrowArgumentOutOfRangeException:
\* it ends after a diagnostic, as the specification says of ClearString
\* with an invalid size.
ThrowArgumentOutOfRangeException(pszParamName) == TRUE

\* The lines GetSystemCommandOutput stores out of those fgets reads, added
\* to the array `lines` (NULLArray while it holds none).
RECURSIVE StoreLines(_, _)
StoreLines(read, lines) ==
    IF read = <<>> THEN lines
    ELSE IF IsNullOrWhiteSpace(Head(read)) THEN StoreLines(Tail(read), lines)
    ELSE StoreLines(Tail(read),
                    IF lines = NULLArray THEN <<Head(read)>>
                    ELSE Append(lines, Head(read)))

(***************************************************************************)
(* The calls a program makes to them.                                      *)
(***************************************************************************)
ArgChars == {32, 97}                    \* ' ', 'a'
ArgStrings == StringsOver(ArgChars, MaxArgLen)

\* What a command may print: nothing; a line; a blank line, a line and a
\* last line with no newline.
CommandOutputs ==
    {<<>>, << <<97, 10>> >>, << <<10>>, <<97, 10>>, <<32, 97>> >>}

\* The caller holds a buffer with a string in it (or no buffer), a size, and
\* a message, format or command (or none); popen launches commands or not.
InitFatal ==
    /\ op = "none"
    /\ pszBuffer \in ArgStrings \cup {NULL}
    /\ nSize \in (0 - 1)..MaxSize
    /\ pszText \in ArgStrings \cup {NULL}
    /\ popenOpens \in BOOLEAN
    /\ ppszOutputLines = NULLArray
    /\ nOutputLineCount = 0
    /\ exited = FALSE
    /\ NoTrim
    /\ NoSplit
    /\ NoReplace
    /\ NoJoin

\* HandleError(pszText)
DoHandleError ==
    /\ op = "none"
    /\ ~exited
    /\ op' = "HandleError"
    /\ exited' = IF IsNullOrWhiteSpace(pszText) THEN FALSE ELSE TRUE
    /\ UNCHANGED <<pszBuffer, nSize, pszText, popenOpens, ppszOutputLines,
                   nOutputLineCount, trimVars, splitVars, replaceVars,
                   joinVars>>

\* ClearString(pszBuffer, nSize), on a buffer of at least nSize bytes
DoClearString ==
    /\ op = "none"
    /\ ~exited
    /\ op' = "ClearString"
    /\ IF IsNullOrWhiteSpace(pszBuffer)
       THEN UNCHANGED <<pszBuffer, exited>>
       ELSE IF nSize <= 0
       THEN /\ exited' = ThrowArgumentOutOfRangeException("nSize")
            /\ UNCHANGED pszBuffer
       ELSE /\ pszBuffer' = CStr(Zeroed(nSize))
            /\ UNCHANGED exited
    /\ UNCHANGED <<nSize, pszText, popenOpens, ppszOutputLines,
                   nOutputLineCount, trimVars, splitVars, replaceVars,
                   joinVars>>

\* FormatDate(pszBuffer, nSize, pszText), on a buffer of at least nSize
\* bytes.  A format of ArgChars has no conversion: strftime copies it when it
\* fits with its terminator, and leaves the buffer undefined when not.
DoFormatDate ==
    /\ op = "none"
    /\ ~exited
    /\ op' = "FormatDate"
    /\ IF pszBuffer = NULL \/ nSize <= 0
       THEN exited' = TRUE /\ UNCHANGED pszBuffer
       ELSE IF IsNullOrWhiteSpace(pszText)
       THEN exited' = TRUE /\ UNCHANGED pszBuffer
       ELSE /\ IF Len(pszText) + 1 <= nSize
               THEN pszBuffer' = pszText
               ELSE pszBuffer' \in StringsOver(ArgChars, nSize)
            /\ UNCHANGED exited
    /\ UNCHANGED <<nSize, pszText, popenOpens, ppszOutputLines,
                   nOutputLineCount, trimVars, splitVars, replaceVars,
                   joinVars>>

\* GetSystemCommandOutput(pszText, &ppszOutputLines, &nOutputLineCount)
DoGetSystemCommandOutput ==
    /\ op = "none"
    /\ ~exited
    /\ op' = "GetSystemCommandOutput"
    /\ IF IsNullOrWhiteSpace(pszText)
       THEN UNCHANGED <<ppszOutputLines, nOutputLineCount, exited>>
       ELSE IF ~popenOpens
       THEN /\ ppszOutputLines' = NULLArray
            /\ nOutputLineCount' = 0
            /\ exited' = TRUE
       ELSE \E read \in CommandOutputs :
              LET lines == StoreLines(read, NULLArray)
              IN  /\ ppszOutputLines' = lines
                  /\ nOutputLineCount' =
                         IF lines = NULLArray THEN 0 ELSE Len(lines)
                  /\ UNCHANGED exited
    /\ UNCHANGED <<pszBuffer, nSize, pszText, popenOpens, trimVars,
                   splitVars, replaceVars, joinVars>>

NextFatal ==
    DoHandleError \/ DoClearString \/ DoFormatDate \/ DoGetSystemCommandOutput

SpecFatal == InitFatal /\ [][NextFatal]_vars

(***************************************************************************)
(* The claim about them.                                                   *)
(***************************************************************************)
\* C14: every fatal condition ends the process: HandleError with any
\* message, blank or absent included; ClearString with a size <= 0 on any
\* buffer, blank included; FormatDate with no buffer, a size <= 0 or a blank
\* format; GetSystemCommandOutput when popen cannot launch the command.
C14_FatalConditionsExit ==
    /\ op = "HandleError" => exited
    /\ (op = "ClearString" /\ nSize <= 0) => exited
    /\ (op = "FormatDate"
          /\ (pszBuffer = NULL \/ nSize <= 0 \/ IsNullOrWhiteSpace(pszText)))
       => exited
    /\ (op = "GetSystemCommandOutput" /\ ~IsNullOrWhiteSpace(pszText)
          /\ ~popenOpens)
       => exited

====
